---------------------------- MODULE Spec2Model ----------------------------
(***************************************************************************)
(* A model of backend/app/bedrock.py: the model resolver (get_model_id),   *)
(* the request composer (compose_args_for_converse_api) and the price      *)
(* calculator (calculate_price), together with the process-wide data they  *)
(* read (DEFAULT_GENERATION_CONFIG, BEDROCK_PRICING, BEDROCK_REGION,       *)
(* ENABLE_BEDROCK_CROSS_REGION_INFERENCE).                                 *)
(*                                                                         *)
(* Conventions.                                                            *)
(*  - A Python call either returns or raises: Return(v) / Raise(e).        *)
(*  - Python None is the value None; an optional argument is None or a     *)
(*    tagged value, so that None never meets a string in a comparison.     *)
(*  - Strings whose characters the code inspects (file names, media types, *)
(*    dictionary keys, bodies, instructions) are sequences of              *)
(*    one-character strings, wrapped as Str(..); the strings the code only *)
(*    compares or concatenates whole (roles, content types, model names,   *)
(*    regions, arns, versions) are TLA+ strings.                           *)
(*  - A Python dict is a sequence of <<key, value>> pairs with distinct    *)
(*    keys, in insertion order.                                            *)
(*  - Prices are integers (micro-units per 1000 tokens); a cost is kept as *)
(*    its numerator over 1000, so no rounding is modelled.                 *)
(***************************************************************************)
EXTENDS Integers, Sequences, FiniteSets, TLC

VARIABLES
    DEFAULT_GENERATION_CONFIG,              \* bedrock.py:23
    ENABLE_BEDROCK_CROSS_REGION_INFERENCE,  \* bedrock.py:28
    BEDROCK_REGION,                         \* bedrock.py:21
    BEDROCK_PRICING,                        \* bedrock.py:8 (app.config)
    calls,                                  \* per caller: the call in flight or returned
    boot                                    \* the process-wide data as it was at process start

vars == <<DEFAULT_GENERATION_CONFIG, ENABLE_BEDROCK_CROSS_REGION_INFERENCE,
          BEDROCK_REGION, BEDROCK_PRICING, calls, boot>>

globals == <<DEFAULT_GENERATION_CONFIG, ENABLE_BEDROCK_CROSS_REGION_INFERENCE,
             BEDROCK_REGION, BEDROCK_PRICING>>

(***************************************************************************)
(* Bounds of the model.                                                    *)
(***************************************************************************)
NumCallers == 2
MaxTurns == 2

(***************************************************************************)
(* Python values and control flow.                                         *)
(***************************************************************************)
None == [t |-> "NoneType"]
Str(s) == [t |-> "str", v |-> s]
Obj(fields) == [t |-> "object", v |-> fields]
IsNone(x) == x.t = "NoneType"

Return(v) == [raised |-> FALSE, value |-> v]
Raise(e) == [raised |-> TRUE, error |-> e]

\* Python truthiness of an optional string: None and "" are falsy.
TruthyStr(x) == x.t = "str" /\ x.v # <<>>

(***************************************************************************)
(* Sequences of characters.                                                *)
(***************************************************************************)
RECURSIVE SelectChars(_, _)
SelectChars(s, keep) ==
    IF s = <<>> THEN <<>>
    ELSE IF Head(s) \in keep THEN <<Head(s)>> \o SelectChars(Tail(s), keep)
         ELSE SelectChars(Tail(s), keep)

\* str.rfind(ch): the last 0-based index of ch in s, or -1.
RFind(s, ch) ==
    LET hits == {i \in 1..Len(s) : s[i] = ch}
    IN  IF hits = {} THEN -1
        ELSE (CHOOSE i \in hits : \A j \in hits : j <= i) - 1

\* str.split(sep) for a one-character separator: a sequence of pieces.
RECURSIVE SplitFrom(_, _, _)
SplitFrom(s, sep, piece) ==
    IF s = <<>> THEN <<piece>>
    ELSE IF Head(s) = sep THEN <<piece>> \o SplitFrom(Tail(s), sep, <<>>)
         ELSE SplitFrom(Tail(s), sep, Append(piece, Head(s)))

Split(s, sep) == SplitFrom(s, sep, <<>>)

\* s[1:]
DropFirst(s) == IF s = <<>> THEN <<>> ELSE Tail(s)

(***************************************************************************)
(* Python dicts: insertion-ordered sequences of <<key, value>>.            *)
(***************************************************************************)
DictKeys(d) == {d[i][1] : i \in 1..Len(d)}
DictHas(d, k) == k \in DictKeys(d)
DictGet(d, k) == d[CHOOSE i \in 1..Len(d) : d[i][1] = k][2]

\* d[k] = v: an existing key keeps its position, a new key goes last.
DictSet(d, k, v) ==
    IF DictHas(d, k)
    THEN [i \in 1..Len(d) |-> IF d[i][1] = k THEN <<k, v>> ELSE d[i]]
    ELSE Append(d, <<k, v>>)

\* {**a, **b}
RECURSIVE DictMerge(_, _)
DictMerge(a, b) ==
    IF b = <<>> THEN a
    ELSE DictMerge(DictSet(a, Head(b)[1], Head(b)[2]), Tail(b))

DictRemove(d, k) == SelectSeq(d, LAMBDA kv : kv[1] # k)

(***************************************************************************)
(* get_model_id (bedrock.py:297-355).                                      *)
(***************************************************************************)
base_model_ids ==
    [m \in {"claude-v2", "claude-instant-v1", "claude-v3-sonnet", "claude-v3-haiku",
            "claude-v3-opus", "claude-v3.5-sonnet", "claude-v3.5-sonnet-v2",
            "claude-v3.5-haiku", "mistral-7b-instruct", "mixtral-8x7b-instruct",
            "mistral-large"} |->
        CASE m = "claude-v2" -> "anthropic.claude-v2:1"
          [] m = "claude-instant-v1" -> "anthropic.claude-instant-v1"
          [] m = "claude-v3-sonnet" -> "anthropic.claude-3-sonnet-20240229-v1:0"
          [] m = "claude-v3-haiku" -> "anthropic.claude-3-haiku-20240307-v1:0"
          [] m = "claude-v3-opus" -> "anthropic.claude-3-opus-20240229-v1:0"
          [] m = "claude-v3.5-sonnet" -> "anthropic.claude-3-5-sonnet-20240620-v1:0"
          [] m = "claude-v3.5-sonnet-v2" -> "anthropic.claude-3-5-sonnet-20241022-v2:0"
          [] m = "claude-v3.5-haiku" -> "anthropic.claude-3-5-haiku-20241022-v1:0"
          [] m = "mistral-7b-instruct" -> "mistral.mistral-7b-instruct-v0:2"
          [] m = "mixtral-8x7b-instruct" -> "mistral.mixtral-8x7b-instruct-v0:1"
          [] m = "mistral-large" -> "mistral.mistral-large-2402-v1:0"]

cross_region_inference_models ==
    {"claude-v3-sonnet", "claude-v3-haiku", "claude-v3-opus", "claude-v3.5-sonnet",
     "claude-v3.5-sonnet-v2", "claude-v3.5-haiku"}

supported_region_prefixes ==
    [r \in {"us-east-1", "us-west-2", "eu-west-1", "eu-central-1", "eu-west-3",
            "ap-southeast-2"} |->
        CASE r \in {"us-east-1", "us-west-2"} -> "us"
          [] r \in {"eu-west-1", "eu-central-1", "eu-west-3"} -> "eu"
          [] r = "ap-southeast-2" -> "au"]

\* A faulty variant: the prefix is applied without asking whether the model is eligible.
get_model_id_any_model(model, enable_cross_region, bedrock_region) ==
    IF model \notin DOMAIN base_model_ids \/ base_model_ids[model] = ""
    THEN Raise("ValueError")
    ELSE IF enable_cross_region /\ bedrock_region \in DOMAIN supported_region_prefixes
         THEN Return(supported_region_prefixes[bedrock_region] \o "." \o base_model_ids[model])
         ELSE Return(base_model_ids[model])

get_model_id(model, enable_cross_region, bedrock_region) ==
    LET \* base_model_ids.get(model): None when the key is absent
        known == model \in DOMAIN base_model_ids
    IN  IF ~known \/ base_model_ids[model] = ""          \* if not base_model_id
        THEN Raise("ValueError")
        ELSE LET base_model_id == base_model_ids[model]
             IN  IF enable_cross_region /\ model \in cross_region_inference_models
                 THEN \* supported_region_prefixes.get(bedrock_region); if region_prefix
                      IF bedrock_region \in DOMAIN supported_region_prefixes
                         /\ supported_region_prefixes[bedrock_region] # ""
                      THEN Return(supported_region_prefixes[bedrock_region]
                                  \o "." \o base_model_id)
                      ELSE Return(base_model_id)
                 ELSE Return(base_model_id)


(***************************************************************************)
(* Character classes.                                                      *)
(***************************************************************************)
UpperLetters == <<"A", "B", "C", "D", "E", "F", "G", "H", "I", "J", "K", "L", "M", "N", "O", "P", "Q", "R", "S", "T", "U", "V", "W", "X", "Y", "Z">>
LowerLetters == <<"a", "b", "c", "d", "e", "f", "g", "h", "i", "j", "k", "l", "m", "n", "o", "p", "q", "r", "s", "t", "u", "v", "w", "x", "y", "z">>
DigitChars == <<"0", "1", "2", "3", "4", "5", "6", "7", "8", "9">>

Range(s) == {s[i] : i \in 1..Len(s)}
IndexIn(s, c) == CHOOSE i \in 1..Len(s) : s[i] = c

AsciiLetters == Range(UpperLetters) \cup Range(LowerLetters)
\* A sample of what the regular expression class \s matches.
Whitespace == {" ", "\t", "\n", "\r"}

ToUpper(c) == IF c \in Range(LowerLetters) THEN UpperLetters[IndexIn(LowerLetters, c)] ELSE c
ToLower(c) == IF c \in Range(UpperLetters) THEN LowerLetters[IndexIn(UpperLetters, c)] ELSE c

(***************************************************************************)
(* base64.b64decode (bedrock.py:184, 201): characters outside the alphabet *)
(* are discarded, a quantum left open at the end of the data raises        *)
(* binascii.Error, and a string that is not ASCII raises ValueError.       *)
(***************************************************************************)
B64Alphabet == UpperLetters \o LowerLetters \o DigitChars \o <<"+", "/">>
B64Chars == Range(B64Alphabet)
\* A sample of the ASCII characters outside the base64 alphabet.
AsciiOther == {"=", " ", "\n", "!", ".", "-", "(", ")", "[", "]", "_"}

RECURSIVE B64Scan(_, _, _, _, _)
B64Scan(s, quad_pos, pads, leftchar, out) ==
    IF s = <<>>
    THEN IF quad_pos # 0 THEN Raise("binascii.Error") ELSE Return(out)
    ELSE LET ch == Head(s) IN
         IF ch = "="
         THEN IF quad_pos >= 2 /\ quad_pos + pads + 1 >= 4
              THEN Return(out)
              ELSE B64Scan(Tail(s), quad_pos,
                           IF quad_pos >= 2 THEN pads + 1 ELSE pads, leftchar, out)
         ELSE IF ch \notin B64Chars
         THEN B64Scan(Tail(s), quad_pos, pads, leftchar, out)
         ELSE LET v == IndexIn(B64Alphabet, ch) - 1 IN
              CASE quad_pos = 0 -> B64Scan(Tail(s), 1, 0, v, out)
                [] quad_pos = 1 ->
                     B64Scan(Tail(s), 2, 0, v % 16, Append(out, leftchar * 4 + v \div 16))
                [] quad_pos = 2 ->
                     B64Scan(Tail(s), 3, 0, v % 4, Append(out, leftchar * 16 + v \div 4))
                [] quad_pos = 3 ->
                     B64Scan(Tail(s), 0, 0, 0, Append(out, leftchar * 64 + v))

Bytes(b) == [t |-> "bytes", v |-> b]

b64decode(body) ==
    IF body.t # "str" THEN Raise("TypeError")
    ELSE IF \E i \in 1..Len(body.v) : body.v[i] \notin B64Chars \cup AsciiOther
    THEN Raise("ValueError")
    ELSE LET r == B64Scan(body.v, 0, 0, 0, <<>>)
         IN  IF r.raised THEN r ELSE Return(Bytes(r.value))

(***************************************************************************)
(* pathlib.Path(file_name).suffix and .stem (bedrock.py:194, 198), for a   *)
(* file name that ends in its final component.                             *)
(***************************************************************************)
PathName(file_name) ==
    LET i == RFind(file_name, "/")
    IN  SubSeq(file_name, i + 2, Len(file_name))

PathSuffix(file_name) ==
    LET name == PathName(file_name)
        i == RFind(name, ".")
    IN  IF 0 < i /\ i < Len(name) - 1 THEN SubSeq(name, i + 1, Len(name)) ELSE <<>>

PathStem(file_name) ==
    LET name == PathName(file_name)
        i == RFind(name, ".")
    IN  IF 0 < i /\ i < Len(name) - 1 THEN SubSeq(name, 1, i) ELSE name

(***************************************************************************)
(* _get_converse_supported_format (bedrock.py:125-138).                    *)
(***************************************************************************)
supported_formats ==
    {<<"p", "d", "f">>,
     <<"c", "s", "v">>,
     <<"d", "o", "c">>,
     <<"d", "o", "c", "x">>,
     <<"x", "l", "s">>,
     <<"x", "l", "s", "x">>,
     <<"h", "t", "m", "l">>,
     <<"t", "x", "t">>,
     <<"m", "d">>}

_get_converse_supported_format(ext) ==
    IF ext \in supported_formats THEN ext ELSE <<"t", "x", "t">>

(***************************************************************************)
(* _convert_to_valid_file_name (bedrock.py:141-149).                       *)
(***************************************************************************)
ValidNameChars ==
    AsciiLetters \cup Range(DigitChars) \cup Whitespace \cup {"-", "(", ")", "[", "]"}

\* re.sub(r"\s+", " ", s)
RECURSIVE CollapseWhitespace(_)
CollapseWhitespace(s) ==
    IF s = <<>> THEN <<>>
    ELSE IF Head(s) \in Whitespace
         THEN IF Len(s) > 1 /\ s[2] \in Whitespace
              THEN CollapseWhitespace(Tail(s))
              ELSE <<" ">> \o CollapseWhitespace(Tail(s))
         ELSE <<Head(s)>> \o CollapseWhitespace(Tail(s))

\* str.strip()
Strip(s) ==
    LET solid == {i \in 1..Len(s) : s[i] \notin Whitespace}
    IN  IF solid = {} THEN <<>>
        ELSE SubSeq(s, CHOOSE i \in solid : \A j \in solid : i <= j,
                       CHOOSE i \in solid : \A j \in solid : j <= i)

\* A faulty variant: the unwanted characters are replaced by a space, not removed.
RECURSIVE ReplaceInvalid(_)
ReplaceInvalid(s) ==
    IF s = <<>> THEN <<>>
    ELSE <<IF Head(s) \in ValidNameChars THEN Head(s) ELSE " ">> \o ReplaceInvalid(Tail(s))

_convert_to_valid_file_name_spaces(file_name) ==
    Strip(CollapseWhitespace(ReplaceInvalid(file_name)))

_convert_to_valid_file_name(file_name) ==
    Strip(CollapseWhitespace(SelectChars(file_name, ValidNameChars)))


(***************************************************************************)
(* Dictionary keys of the generation configuration.                        *)
(***************************************************************************)
K_max_tokens == <<"m", "a", "x", "_", "t", "o", "k", "e", "n", "s">>
K_top_k == <<"t", "o", "p", "_", "k">>
K_top_p == <<"t", "o", "p", "_", "p">>
K_temperature == <<"t", "e", "m", "p", "e", "r", "a", "t", "u", "r", "e">>
K_stop_sequences == <<"s", "t", "o", "p", "_", "s", "e", "q", "u", "e", "n", "c", "e", "s">>
K_maxTokens == <<"m", "a", "x", "T", "o", "k", "e", "n", "s">>
K_topP == <<"t", "o", "p", "P">>
K_stopSequences == <<"s", "t", "o", "p", "S", "e", "q", "u", "e", "n", "c", "e", "s">>

Num(n) == [t |-> "number", v |-> n]
List(l) == [t |-> "list", v |-> l]

(***************************************************************************)
(* app.utils.convert_dict_keys_to_camel_case and snake_to_camel: every key *)
(* is split at its underscores, the first piece is kept and every later    *)
(* piece is title-cased; the converted keys are stored in the order of the *)
(* source dictionary, a later one overwriting an equal earlier one.        *)
(***************************************************************************)
RECURSIVE TitleFrom(_, _)
TitleFrom(s, prevCased) ==
    IF s = <<>> THEN <<>>
    ELSE <<IF prevCased THEN ToLower(Head(s)) ELSE ToUpper(Head(s))>>
         \o TitleFrom(Tail(s), Head(s) \in AsciiLetters)

Title(s) == TitleFrom(s, FALSE)

RECURSIVE JoinTitled(_)
JoinTitled(pieces) ==
    IF pieces = <<>> THEN <<>> ELSE Title(Head(pieces)) \o JoinTitled(Tail(pieces))

snake_to_camel(snake_str) ==
    LET components == Split(snake_str, "_")
    IN  Head(components) \o JoinTitled(Tail(components))

RECURSIVE CamelInto(_, _)
CamelInto(camel_dict, snake_dict) ==
    IF snake_dict = <<>> THEN camel_dict
    ELSE CamelInto(DictSet(camel_dict, snake_to_camel(Head(snake_dict)[1]),
                           Head(snake_dict)[2]),
                   Tail(snake_dict))

convert_dict_keys_to_camel_case(snake_dict) == CamelInto(<<>>, snake_dict)

(***************************************************************************)
(* compose_args_for_converse_api.process_content (bedrock.py:161-206).     *)
(* c is a ContentModel [content_type, body, media_type, file_name], the    *)
(* guardrail is None or an object with grounding_threshold (in             *)
(* hundredths), guardrail_arn and guardrail_version.                       *)
(***************************************************************************)
GuardedQuery(body) == [guardContent |-> [text |-> [text |-> body, qualifiers |-> <<"query">>]]]

ImageBlock(c) ==
    LET pieces == Split(c.media_type.v, "/")
    IN  IF TruthyStr(c.media_type) /\ Len(pieces) < 2
        THEN Raise("IndexError")
        ELSE LET format == IF TruthyStr(c.media_type) THEN pieces[2] ELSE <<"u", "n", "k", "n", "o", "w", "n">>
                 bytes == b64decode(c.body)
             IN  IF bytes.raised THEN bytes
                 ELSE Return(<<[image |-> [format |-> format,
                                            source |-> [bytes |-> bytes.value]]]>>)

DocumentBlock(c) ==
    IF c.file_name.t # "str"
    THEN Raise("TypeError")
    ELSE LET format == _get_converse_supported_format(DropFirst(PathSuffix(c.file_name.v)))
             name == _convert_to_valid_file_name(PathStem(c.file_name.v))
             bytes == b64decode(c.body)
         IN  IF bytes.raised THEN bytes
             ELSE Return(<<[document |-> [format |-> format, name |-> name,
                                           source |-> [bytes |-> bytes.value]]]>>)

\* A faulty variant: the guarded query comes first and the grounding source second.
GuardedTextBlocks_swapped(c, grounding_source) ==
    <<GuardedQuery(c.body), [guardContent |-> grounding_source]>>

GuardedTextBlocks(c, grounding_source) ==
    <<[guardContent |-> grounding_source], GuardedQuery(c.body)>>

\* A faulty variant: a block of an unknown type is dropped without an error.
UnsupportedContent_dropped(c) == Return(<<>>)

UnsupportedContent(c) == Raise("NotImplementedError")

process_content(c, role, grounding_source, guardrail) ==
    CASE c.content_type = "text" ->
           IF role = "user" /\ ~IsNone(guardrail) /\ guardrail.v.grounding_threshold > 0
           THEN Return(GuardedTextBlocks(c, grounding_source))
           ELSE IF role = "assistant"
                THEN Return(<<[text |-> IF c.body.t = "str" THEN c.body ELSE None]>>)
                ELSE Return(<<[text |-> c.body]>>)
      [] c.content_type = "image" -> ImageBlock(c)
      [] c.content_type = "attachment" -> DocumentBlock(c)
      [] OTHER -> UnsupportedContent(c)


(***************************************************************************)
(* compose_args_for_converse_api (bedrock.py:152-257).                     *)
(***************************************************************************)
RECURSIVE TurnContent(_, _, _, _)
TurnContent(content, role, grounding_source, guardrail) ==
    IF content = <<>> THEN Return(<<>>)
    ELSE LET first == process_content(Head(content), role, grounding_source, guardrail)
         IN  IF first.raised THEN first
             ELSE LET rest == TurnContent(Tail(content), role, grounding_source, guardrail)
                  IN  IF rest.raised THEN rest
                      ELSE Return(first.value \o rest.value)

\* bedrock.py:218
IsTranslatedRole(role) == role \notin {"system", "instruction"}

RECURSIVE arg_messages(_, _, _)
arg_messages(messages, grounding_source, guardrail) ==
    IF messages = <<>> THEN Return(<<>>)
    ELSE LET message == Head(messages) IN
         IF ~IsTranslatedRole(message.role)
         THEN arg_messages(Tail(messages), grounding_source, guardrail)
         ELSE LET content == TurnContent(message.content, message.role,
                                         grounding_source, guardrail)
              IN  IF content.raised THEN content
                  ELSE LET rest == arg_messages(Tail(messages), grounding_source, guardrail)
                       IN  IF rest.raised THEN rest
                           ELSE Return(<<[role |-> message.role,
                                          content |-> content.value]>> \o rest.value)

GenerationOverrides(generation_params) ==
    IF IsNone(generation_params) THEN <<>>
    ELSE << <<K_maxTokens, generation_params.v.max_tokens>>,
            <<K_temperature, generation_params.v.temperature>>,
            <<K_topP, generation_params.v.top_p>>,
            <<K_stopSequences, generation_params.v.stop_sequences>> >>

\* A faulty variant: the defaults are laid over the supplied parameters.
inference_config_defaults_win(defaults, generation_params) ==
    DictMerge(GenerationOverrides(generation_params), defaults)

\* bedrock.py:221-233: a new dictionary, the defaults first, the overrides after.
inference_config(defaults, generation_params) ==
    DictMerge(defaults, GenerationOverrides(generation_params))

\* bedrock.py:235: inference_config.pop("top_k"), no default.
pop_top_k(config) ==
    IF DictHas(config, K_top_k)
    THEN Return([popped |-> DictGet(config, K_top_k), rest |-> DictRemove(config, K_top_k)])
    ELSE Raise("KeyError")

\* A faulty variant: the instruction is tested against None only.
system_block_not_none(instruction) ==
    IF ~IsNone(instruction) THEN <<[text |-> instruction]>> ELSE <<>>

\* bedrock.py:243
system_block(instruction) ==
    IF TruthyStr(instruction) THEN <<[text |-> instruction]>> ELSE <<>>

\* A faulty variant: the streaming mode is never added.
guardrail_config_no_async(guardrail, stream) ==
    IF ~IsNone(guardrail) /\ guardrail.v.guardrail_arn # "" /\ guardrail.v.guardrail_version # ""
    THEN <<[guardrailIdentifier |-> guardrail.v.guardrail_arn,
            guardrailVersion |-> guardrail.v.guardrail_version,
            trace |-> "enabled"]>>
    ELSE <<>>

\* bedrock.py:246-255: <<>> when the key is not set, else <<the GuardrailConfig>>.
guardrail_config(guardrail, stream) ==
    IF ~IsNone(guardrail) /\ guardrail.v.guardrail_arn # "" /\ guardrail.v.guardrail_version # ""
    THEN LET base == [guardrailIdentifier |-> guardrail.v.guardrail_arn,
                      guardrailVersion |-> guardrail.v.guardrail_version,
                      trace |-> "enabled"]
         IN  IF stream THEN <<base @@ [streamProcessingMode |-> "async"]>> ELSE <<base>>
    ELSE <<>>

compose_args_for_converse_api(a, defaults, enable_cross_region, bedrock_region) ==
    LET msgs == arg_messages(a.messages, a.grounding_source, a.guardrail) IN
    IF msgs.raised THEN msgs
    ELSE LET popped == pop_top_k(inference_config(defaults, a.generation_params)) IN
    IF popped.raised THEN popped
    ELSE LET model_id == get_model_id(a.model, enable_cross_region, bedrock_region) IN
    IF model_id.raised THEN model_id
    ELSE LET args == [inference_config |-> convert_dict_keys_to_camel_case(popped.value.rest),
                      additional_model_request_fields |-> << <<K_top_k, popped.value.popped>> >>,
                      model_id |-> model_id.value,
                      messages |-> msgs.value,
                      stream |-> a.stream,
                      system |-> system_block(a.instruction)]
             guard == guardrail_config(a.guardrail, a.stream)
         IN  Return(IF guard = <<>> THEN args ELSE args @@ [guardrailConfig |-> guard[1]])

\* A faulty variant: top_k is popped from the process-wide dictionary itself.
DefaultConfigAfterCompose_aliased(a, defaults) ==
    IF arg_messages(a.messages, a.grounding_source, a.guardrail).raised
    THEN defaults
    ELSE DictRemove(defaults, K_top_k)

\* bedrock.py:221-235: the defaults are unpacked into a new dictionary, and it is
\* the new dictionary that loses top_k.
DefaultConfigAfterCompose(a, defaults) == defaults

(***************************************************************************)
(* calculate_price (bedrock.py:277-294).  The result is the numerator of   *)
(* the cost over 1000.                                                     *)
(***************************************************************************)
\* BEDROCK_PRICING["default"][model][field]
DefaultPrice(pricing, model, field) ==
    IF "default" \in DOMAIN pricing
       /\ model \in DOMAIN pricing["default"]
       /\ field \in DOMAIN pricing["default"][model]
    THEN Return(pricing["default"][model][field])
    ELSE Raise("KeyError")

\* A faulty variant: the default entry is only read when the regional one is missing.
UnitPrice_lazy(pricing, region, model, field) ==
    IF region \in DOMAIN pricing
       /\ model \in DOMAIN pricing[region]
       /\ field \in DOMAIN pricing[region][model]
    THEN Return(pricing[region][model][field])
    ELSE DefaultPrice(pricing, model, field)

\* A faulty variant: a model the region prices at all is priced by the region alone.
UnitPrice_whole_entry(pricing, region, model, field) ==
    LET fallback == DefaultPrice(pricing, model, field) IN
    IF fallback.raised THEN fallback
    ELSE IF region \in DOMAIN pricing /\ model \in DOMAIN pricing[region]
            /\ DOMAIN pricing[region][model] # {}
         THEN IF field \in DOMAIN pricing[region][model]
              THEN Return(pricing[region][model][field])
              ELSE Return(0)
         ELSE fallback

\* BEDROCK_PRICING.get(region, {}).get(model, {}).get(field, <default price>):
\* the default price is an argument, so it is looked up first.
UnitPrice(pricing, region, model, field) ==
    LET fallback == DefaultPrice(pricing, model, field) IN
    IF fallback.raised THEN fallback
    ELSE IF region \in DOMAIN pricing
            /\ model \in DOMAIN pricing[region]
            /\ field \in DOMAIN pricing[region][model]
         THEN Return(pricing[region][model][field])
         ELSE fallback

calculate_price(model, input_tokens, output_tokens, region, pricing) ==
    LET input_price == UnitPrice(pricing, region, model, "input") IN
    IF input_price.raised THEN input_price
    ELSE LET output_price == UnitPrice(pricing, region, model, "output") IN
    IF output_price.raised THEN output_price
    ELSE Return(input_price.value * input_tokens + output_price.value * output_tokens)


(***************************************************************************)
(* The process-wide data.  bedrock.py imports the default generation       *)
(* configurations and the pricing table from app.config; they are spelled  *)
(* out here with the keys bedrock.py reads from them.  Fractions are in    *)
(* thousandths.                                                            *)
(***************************************************************************)
DEFAULT_CLAUDE_GENERATION_CONFIG ==
    << <<K_max_tokens, Num(2000)>>, <<K_top_k, Num(250)>>, <<K_top_p, Num(999)>>,
       <<K_temperature, Num(600)>>,
       <<K_stop_sequences, List(<<"Human: ", "Assistant: ">>)>> >>

DEFAULT_MISTRAL_GENERATION_CONFIG ==
    << <<K_max_tokens, Num(4096)>>, <<K_top_k, Num(50)>>, <<K_top_p, Num(900)>>,
       <<K_temperature, Num(500)>>,
       <<K_stop_sequences, List(<<"[INST]", "[/INST]">>)>> >>

\* A default configuration that sets no top_k: bedrock.py:235 pops the key
\* without a default, so its absence is a case of its own.
GENERATION_CONFIG_WITHOUT_TOP_K == DictRemove(DEFAULT_CLAUDE_GENERATION_CONFIG, K_top_k)

GenerationConfigs ==
    {DEFAULT_CLAUDE_GENERATION_CONFIG, DEFAULT_MISTRAL_GENERATION_CONFIG,
     GENERATION_CONFIG_WITHOUT_TOP_K}

\* "ap-southeast-2" is the default of BEDROCK_REGION (bedrock.py:21).
Regions == {"ap-southeast-2", "ap-northeast-1"}

PricedRegions == {"default", "us-east-1"}
PricedModels == {"claude-v3-haiku", "claude-v3-sonnet"}
PriceFields == {"input", "output"}

\* A price per (region, model, field), no two alike, in micro-units per 1000 tokens.
PriceOf(r, m, f) ==
    (IF r = "default" THEN 250 ELSE 300)
    + (IF m = "claude-v3-haiku" THEN 0 ELSE 2750)
    + (IF f = "input" THEN 0 ELSE 1000)

ModelEntries(r, m) == {[f \in fs |-> PriceOf(r, m, f)] : fs \in SUBSET PriceFields}

RegionTables(r) ==
    UNION {{t \in [ms -> UNION {ModelEntries(r, m) : m \in ms}] :
               \A m \in ms : t[m] \in ModelEntries(r, m)} : ms \in SUBSET PricedModels}

\* Every table over PricedRegions, whole or with regions, models or fields missing.
PricingTables ==
    UNION {{t \in [rs -> UNION {RegionTables(r) : r \in rs}] :
               \A r \in rs : t[r] \in RegionTables(r)} : rs \in SUBSET PricedRegions}

FullPricing ==
    [r \in PricedRegions |-> [m \in PricedModels |-> [f \in PriceFields |-> PriceOf(r, m, f)]]]

(***************************************************************************)
(* The arguments the callers pass.                                         *)
(***************************************************************************)
Content(type, body, media_type, file_name) ==
    [content_type |-> type, body |-> body, media_type |-> media_type, file_name |-> file_name]

ResumeFileName == <<"M", "y", " ", "R", "é", "s", "u", "m", "é", " ", "(", "v", "2", ")", ".", "p", "d", "f", "!", "!">>
SpacedFileName == <<" ", "d", "r", "a", "f", "t", "\t", " ", "[", "1", "]", "-", "-", "f", "i", "n", "a", "l", " ", ".", "v", "2", ".", "m", "d">>

TextHello == Content("text", Str(<<"h", "i">>), None, None)
TextToolUse == Content("text", Obj([toolUseId |-> "t1"]), None, None)
ImagePng == Content("image", Str(<<"Q", "U", "I", "=">>), Str(<<"i", "m", "a", "g", "e", "/", "p", "n", "g">>), None)
ImageNoMediaType == Content("image", Str(<<"Q", "Q", "=", "=">>), None, None)
ImageBadBody == Content("image", Str(<<"Q", "Q", "=">>), Str(<<"i", "m", "a", "g", "e", "/", "p", "n", "g">>), None)
AttachmentResume == Content("attachment", Str(<<"Q", "U", "J", "D">>), None, Str(ResumeFileName))
AttachmentNotes == Content("attachment", Str(<<"Q", "Q", "=", "=">>), None, Str(<<"n", "o", "t", "e", "s", ".", "x", "y", "z">>))
AttachmentSpaced == Content("attachment", Str(<<"Q", "Q", "=", "=">>), None, Str(SpacedFileName))
Video == Content("video", Str(<<"Q", "Q", "=", "=">>), Str(<<"v", "i", "d", "e", "o", "/", "m", "p", "4">>), None)

Turn(role, content) == [role |-> role, content |-> content]

TurnSamples ==
    {Turn("user", <<TextHello>>),
     Turn("user", <<TextHello, ImagePng>>),
     Turn("user", <<AttachmentResume, TextHello>>),
     Turn("user", <<AttachmentNotes, AttachmentSpaced, ImageNoMediaType>>),
     Turn("user", <<ImageBadBody>>),
     Turn("user", <<TextHello, Video>>),
     Turn("user", <<>>),
     Turn("assistant", <<TextHello>>),
     Turn("assistant", <<TextToolUse, AttachmentResume>>),
     Turn("system", <<TextHello>>),
     Turn("system", <<Video>>),
     Turn("instruction", <<TextHello, AttachmentResume>>),
     Turn("instruction", <<Video, TextHello>>)}

RECURSIVE SeqsUpTo(_, _)
SeqsUpTo(S, n) ==
    IF n = 0 THEN {<<>>}
    ELSE LET shorter == SeqsUpTo(S, n - 1)
         IN  shorter \cup {Append(q, x) : q \in {r \in shorter : Len(r) = n - 1}, x \in S}

TurnLists == SeqsUpTo(TurnSamples, MaxTurns)

Guardrail(threshold, arn, version) ==
    Obj([grounding_threshold |-> threshold, guardrail_arn |-> arn, guardrail_version |-> version])

\* grounding_threshold in hundredths; an arn or a version that was not supplied is "".
Guardrails ==
    {None} \cup {Guardrail(th, arn, ver) : th \in {0, 75},
                                            arn \in {"", "arn:aws:bedrock:guardrail/g1"},
                                            ver \in {"", "DRAFT"}}

GroundingSource ==
    Obj([text |-> [text |-> "The sky is blue.", qualifiers |-> <<"grounding_source">>]])

GenerationParams ==
    Obj([max_tokens |-> Num(512), top_k |-> Num(10), top_p |-> Num(500),
         temperature |-> Num(100), stop_sequences |-> List(<<"END">>)])

Instructions == {None, Str(<<>>), Str(<<"B", "e", " ", "b", "r", "i", "e", "f">>)}

ComposeArgs(messages, model, instruction, stream, gen_params, grounding_source, guardrail) ==
    [messages |-> messages, model |-> model, instruction |-> instruction, stream |-> stream,
     generation_params |-> gen_params, grounding_source |-> grounding_source,
     guardrail |-> guardrail]

\* Every list of turns, under a few settings of the other arguments.
ComposeInputsByTurns ==
    {ComposeArgs(ms, model, None, FALSE, None, GroundingSource, g) :
        ms \in TurnLists,
        model \in {"claude-v3-haiku", "gpt-4"},
        g \in {None, Guardrail(75, "", "")}}

\* Every setting of the other arguments, under a few lists of turns.
ComposeInputsByOptions ==
    {ComposeArgs(ms, model, ins, stream, gp, gs, g) :
        ms \in {<<>>, <<Turn("user", <<TextHello>>)>>,
                <<Turn("system", <<TextHello>>), Turn("user", <<TextHello, ImagePng>>),
                  Turn("assistant", <<TextHello>>)>>},
        model \in {"claude-v3-haiku", "mistral-large", "gpt-4"},
        ins \in Instructions,
        stream \in BOOLEAN,
        gp \in {None, GenerationParams},
        gs \in {None, GroundingSource},
        g \in Guardrails}

ComposeInputs == ComposeInputsByTurns \cup ComposeInputsByOptions

ModelNames == DOMAIN base_model_ids \cup {"gpt-4", ""}
RegionNames == DOMAIN supported_region_prefixes \cup {"ap-northeast-1", ""}

ModelIdInputs ==
    {[model |-> m, enable_cross_region |-> e, bedrock_region |-> r] :
        m \in ModelNames, e \in BOOLEAN, r \in RegionNames}

PriceInputs ==
    {[model |-> m, input_tokens |-> i, output_tokens |-> o, region |-> r] :
        m \in PricedModels \cup {"gpt-4"},
        i \in {0, 1000, 1500},
        o \in {0, 500},
        r \in PricedRegions \cup {"eu-west-1"}}

(***************************************************************************)
(* The state machine: callers issue calls; each call is one atomic step.   *)
(***************************************************************************)
Callers == 1..NumCallers

Idle == [op |-> "idle", args |-> None, done |-> TRUE, result |-> Return(None)]
Pending(op, args) == [op |-> op, args |-> args, done |-> FALSE, result |-> Return(None)]

Globals == [config |-> DEFAULT_GENERATION_CONFIG,
            cross_region |-> ENABLE_BEDROCK_CROSS_REGION_INFERENCE,
            region |-> BEDROCK_REGION,
            pricing |-> BEDROCK_PRICING]

\* Process start: the module-level assignments of bedrock.py:21-30 and app.config.
Boot(configs, flags, regions, tables) ==
    /\ DEFAULT_GENERATION_CONFIG \in configs
    /\ ENABLE_BEDROCK_CROSS_REGION_INFERENCE \in flags
    /\ BEDROCK_REGION \in regions
    /\ BEDROCK_PRICING \in tables
    /\ boot = Globals

Finish(c, result) == calls' = [calls EXCEPT ![c].done = TRUE, ![c].result = result]

GetModelId(c) ==
    /\ calls[c].op = "get_model_id" /\ ~calls[c].done
    /\ Finish(c, get_model_id(calls[c].args.model, calls[c].args.enable_cross_region,
                              calls[c].args.bedrock_region))
    /\ UNCHANGED <<globals, boot>>

Compose(c) ==
    /\ calls[c].op = "compose" /\ ~calls[c].done
    /\ Finish(c, compose_args_for_converse_api(calls[c].args, DEFAULT_GENERATION_CONFIG,
                     ENABLE_BEDROCK_CROSS_REGION_INFERENCE, BEDROCK_REGION))
    /\ DEFAULT_GENERATION_CONFIG' = DefaultConfigAfterCompose(calls[c].args,
                                                              DEFAULT_GENERATION_CONFIG)
    /\ UNCHANGED <<ENABLE_BEDROCK_CROSS_REGION_INFERENCE, BEDROCK_REGION, BEDROCK_PRICING, boot>>

CalculatePrice(c) ==
    /\ calls[c].op = "calculate_price" /\ ~calls[c].done
    /\ Finish(c, calculate_price(calls[c].args.model, calls[c].args.input_tokens,
                                 calls[c].args.output_tokens, calls[c].args.region,
                                 BEDROCK_PRICING))
    /\ UNCHANGED <<globals, boot>>

\* One caller with one call in flight, the other callers idle.
OneCall(op, inputs) ==
    \E args \in inputs : calls = [c \in Callers |-> IF c = 1 THEN Pending(op, args) ELSE Idle]

(***************************************************************************)
(* get_model_id on every input.                                            *)
(***************************************************************************)
InitModelId ==
    /\ Boot({DEFAULT_CLAUDE_GENERATION_CONFIG}, BOOLEAN, {"ap-southeast-2"}, {FullPricing})
    /\ OneCall("get_model_id", ModelIdInputs)

NextModelId == \E c \in Callers : GetModelId(c)

SpecModelId == InitModelId /\ [][NextModelId]_vars

(***************************************************************************)
(* compose_args_for_converse_api on every input.                           *)
(***************************************************************************)
InitCompose ==
    /\ Boot(GenerationConfigs, BOOLEAN, Regions, {FullPricing})
    /\ OneCall("compose", ComposeInputs)

NextCompose == \E c \in Callers : Compose(c)

SpecCompose == InitCompose /\ [][NextCompose]_vars

(***************************************************************************)
(* calculate_price on every input and every pricing table.                 *)
(***************************************************************************)
InitPrice ==
    /\ Boot({DEFAULT_CLAUDE_GENERATION_CONFIG}, {FALSE}, {"ap-southeast-2"}, PricingTables)
    /\ OneCall("calculate_price", PriceInputs)

NextPrice == \E c \in Callers : CalculatePrice(c)

SpecPrice == InitPrice /\ [][NextPrice]_vars


(***************************************************************************)
(* Any number of callers, any sequence of calls.                           *)
(***************************************************************************)
SomeComposeInputs ==
    {ComposeArgs(<<Turn("user", <<TextHello>>)>>, "claude-v3-haiku", None, FALSE, None,
                 None, None),
     ComposeArgs(<<Turn("user", <<TextHello>>)>>, "claude-v3-haiku",
                 Str(<<"B", "e", " ", "b", "r", "i", "e", "f">>), TRUE, GenerationParams,
                 GroundingSource, Guardrail(75, "arn:aws:bedrock:guardrail/g1", "DRAFT")),
     ComposeArgs(<<Turn("user", <<TextHello, Video>>)>>, "claude-v3-haiku", None, FALSE,
                 None, None, None),
     ComposeArgs(<<Turn("assistant", <<TextToolUse, AttachmentResume>>)>>, "gpt-4", None,
                 FALSE, GenerationParams, None, None)}

SomeModelIdInputs ==
    {[model |-> m, enable_cross_region |-> TRUE, bedrock_region |-> "ap-southeast-2"] :
        m \in {"claude-v3-haiku", "gpt-4"}}

SomePriceInputs ==
    {[model |-> m, input_tokens |-> 1000, output_tokens |-> 500, region |-> "us-east-1"] :
        m \in {"claude-v3-haiku", "gpt-4"}}

\* A caller with no call in flight makes its next call.
Request(c) ==
    /\ calls[c].done
    /\ \/ \E args \in SomeComposeInputs : calls' = [calls EXCEPT ![c] = Pending("compose", args)]
       \/ \E args \in SomeModelIdInputs :
              calls' = [calls EXCEPT ![c] = Pending("get_model_id", args)]
       \/ \E args \in SomePriceInputs :
              calls' = [calls EXCEPT ![c] = Pending("calculate_price", args)]
    /\ UNCHANGED <<globals, boot>>

Init ==
    /\ Boot(GenerationConfigs, {TRUE}, {"ap-southeast-2"}, {FullPricing})
    /\ calls = [c \in Callers |-> Idle]

Next ==
    \E c \in Callers : Request(c) \/ GetModelId(c) \/ Compose(c) \/ CalculatePrice(c)

Spec == Init /\ [][Next]_vars

(***************************************************************************)
(* What the properties speak of.                                           *)
(***************************************************************************)
Returned(op) == {c \in Callers : calls[c].op = op /\ calls[c].done}
Succeeded(op) == {c \in Returned(op) : ~calls[c].result.raised}

SupportedLogicalNames ==
    {"claude-v2", "claude-instant-v1", "claude-v3-sonnet", "claude-v3-haiku",
     "claude-v3-opus", "claude-v3.5-sonnet", "claude-v3.5-sonnet-v2", "claude-v3.5-haiku",
     "mistral-7b-instruct", "mixtral-8x7b-instruct", "mistral-large"}

SupportedContentTypes == {"text", "image", "attachment"}
FilteredRoles == {"system", "instruction"}

GuardrailGrounds(g) == ~IsNone(g) /\ g.v.grounding_threshold > 0

\* The number of wire blocks a content block of a translated turn becomes.
Width(block, role, g) ==
    IF block.content_type = "text" /\ role = "user" /\ GuardrailGrounds(g) THEN 2 ELSE 1

RECURSIVE WidthOfFirst(_, _, _, _)
WidthOfFirst(content, n, role, g) ==
    IF n = 0 THEN 0
    ELSE Width(content[n], role, g) + WidthOfFirst(content, n - 1, role, g)

\* The wire blocks that block b of turn i of the arguments a became in the request.
Produced(a, request, i, b) ==
    LET turn == a.messages[i]
        at == Cardinality({j \in 1..i : a.messages[j].role \notin FilteredRoles})
        from == WidthOfFirst(turn.content, b - 1, turn.role, a.guardrail)
        to == from + Width(turn.content[b], turn.role, a.guardrail)
    IN  IF turn.role \in FilteredRoles \/ at > Len(request.messages) THEN <<>>
        ELSE IF to > Len(request.messages[at].content) THEN <<>>
             ELSE SubSeq(request.messages[at].content, from + 1, to)

BlocksOf(a) ==
    UNION {{<<i, b>> : b \in 1..Len(a.messages[i].content)} : i \in 1..Len(a.messages)}

(***************************************************************************)
(* C1: get_model_id fails with an unsupported-model error for a logical    *)
(* name outside the supported set; otherwise it returns                    *)
(* "{prefix}.{base_id}" exactly when cross-region is enabled, the model is *)
(* in the eligible subset and the region is in the prefix table, and the   *)
(* non-empty base_id in every other case.                                  *)
(***************************************************************************)
C1_ModelIdContract ==
    \A c \in Returned("get_model_id") :
        LET a == calls[c].args
            r == calls[c].result
        IN  IF a.model \notin SupportedLogicalNames
            THEN r.raised /\ r.error = "ValueError"
            ELSE /\ ~r.raised
                 /\ base_model_ids[a.model] # ""
                 /\ IF /\ a.enable_cross_region
                       /\ a.model \in cross_region_inference_models
                       /\ a.bedrock_region \in DOMAIN supported_region_prefixes
                    THEN r.value = supported_region_prefixes[a.bedrock_region] \o "."
                                   \o base_model_ids[a.model]
                    ELSE r.value = base_model_ids[a.model]

C1_Witness ==
    \E c \in Returned("get_model_id") :
        /\ calls[c].args.model = "claude-v3-haiku"
        /\ calls[c].args.enable_cross_region
        /\ calls[c].args.bedrock_region = "ap-southeast-2"
        /\ calls[c].result = Return("au.anthropic.claude-3-haiku-20240307-v1:0")


(***************************************************************************)
(* C2 as stated: if any content block of any turn of the supplied list has *)
(* a content type outside {text, image, attachment}, or the logical model  *)
(* cannot be resolved, the call fails and returns no request.              *)
(***************************************************************************)
C2_AnyBlockOfAnyTurn ==
    \A c \in Returned("compose") :
        LET a == calls[c].args IN
        (\/ \E ib \in BlocksOf(a) :
               a.messages[ib[1]].content[ib[2]].content_type \notin SupportedContentTypes
         \/ a.model \notin SupportedLogicalNames)
        => calls[c].result.raised

(***************************************************************************)
(* C2, amended: if any content block of any turn whose role is neither     *)
(* system nor instruction has a content type outside {text, image,         *)
(* attachment}, or the logical model cannot be resolved, the call fails    *)
(* and returns no request; such a block is never silently dropped.         *)
(***************************************************************************)
C2_AllOrNothing ==
    \A c \in Returned("compose") :
        LET a == calls[c].args IN
        (\/ \E ib \in BlocksOf(a) :
               /\ a.messages[ib[1]].role \notin FilteredRoles
               /\ a.messages[ib[1]].content[ib[2]].content_type \notin SupportedContentTypes
         \/ a.model \notin SupportedLogicalNames)
        => calls[c].result.raised

C2_Witness ==
    \E c \in Returned("compose") :
        /\ calls[c].args.messages = <<Turn("user", <<TextHello>>), Turn("user", <<TextHello, Video>>)>>
        /\ calls[c].args.model = "claude-v3-haiku"
        /\ calls[c].result = Raise("NotImplementedError")

TextBlockAsClaimed(a, request, i, b) ==
    LET turn == a.messages[i]
        block == turn.content[b]
        p == Produced(a, request, i, b)
    IN  IF turn.role = "user" /\ GuardrailGrounds(a.guardrail)
        THEN p = <<[guardContent |-> a.grounding_source],
                   [guardContent |-> [text |-> [text |-> block.body,
                                                qualifiers |-> <<"query">>]]]>>
        ELSE /\ Len(p) = 1
             /\ DOMAIN p[1] = {"text"}
             /\ turn.role # "assistant" => p[1].text = block.body

(***************************************************************************)
(* C3 as stated: a text block of a user turn under a guardrail with        *)
(* grounding_threshold > 0 becomes the grounding source followed by the    *)
(* guarded query; every other text block, of whatever role, becomes        *)
(* exactly one plain text block.                                           *)
(***************************************************************************)
C3_TextBlocksOfAnyRole ==
    \A c \in Succeeded("compose") :
        \A ib \in BlocksOf(calls[c].args) :
            calls[c].args.messages[ib[1]].content[ib[2]].content_type = "text"
            => TextBlockAsClaimed(calls[c].args, calls[c].result.value, ib[1], ib[2])

(***************************************************************************)
(* C3, amended: in every turn whose role is neither system nor instruction *)
(* (those turns are left out of the request), a text block of a user turn  *)
(* under a guardrail with grounding_threshold > 0 becomes the grounding    *)
(* source followed by the guarded query, and every other text block        *)
(* becomes exactly one plain text block.                                   *)
(***************************************************************************)
C3_TextBlocksOfTranslatedTurns ==
    \A c \in Succeeded("compose") :
        \A ib \in BlocksOf(calls[c].args) :
            /\ calls[c].args.messages[ib[1]].role \notin FilteredRoles
            /\ calls[c].args.messages[ib[1]].content[ib[2]].content_type = "text"
            => TextBlockAsClaimed(calls[c].args, calls[c].result.value, ib[1], ib[2])

C3_Witness ==
    \E c \in Succeeded("compose") :
        /\ calls[c].args.messages = <<Turn("assistant", <<TextHello>>), Turn("user", <<TextHello, ImagePng>>)>>
        /\ GuardrailGrounds(calls[c].args.guardrail)
        /\ Len(calls[c].result.value.messages[2].content) = 3
        /\ calls[c].result.value.messages[2].content[1] = [guardContent |-> GroundingSource]
        /\ calls[c].result.value.messages[1].content = <<[text |-> TextHello.body]>>

(***************************************************************************)
(* C4 as stated: system is a list with one text entry carrying the         *)
(* instruction iff an instruction string was supplied, the empty string    *)
(* included, and the empty list iff none was supplied.                     *)
(***************************************************************************)
C4_SystemIffSupplied ==
    \A c \in Succeeded("compose") :
        calls[c].result.value.system =
            IF calls[c].args.instruction.t = "str"
            THEN <<[text |-> calls[c].args.instruction]>>
            ELSE <<>>

(***************************************************************************)
(* C4, amended: system is a list with one text entry carrying the          *)
(* instruction iff a non-empty instruction string was supplied, and the    *)
(* empty list when no instruction or the empty string was supplied; it is  *)
(* never null.                                                             *)
(***************************************************************************)
C4_SystemIffNonEmpty ==
    \A c \in Succeeded("compose") :
        calls[c].result.value.system =
            IF calls[c].args.instruction.t = "str" /\ Len(calls[c].args.instruction.v) > 0
            THEN <<[text |-> calls[c].args.instruction]>>
            ELSE <<>>

C4_Witness ==
    \E c \in Succeeded("compose") :
        /\ calls[c].args.instruction = Str(<<>>)
        /\ calls[c].result.value.system = <<>>

(***************************************************************************)
(* C5: the request has the guardrailConfig key iff a guardrail arn and a   *)
(* guardrail version were both supplied, with trace "enabled";             *)
(* streamProcessingMode is present, and "async", iff guardrailConfig is    *)
(* present and streaming was requested.                                    *)
(***************************************************************************)
C5_GuardrailConfig ==
    \A c \in Succeeded("compose") :
        LET a == calls[c].args
            request == calls[c].result.value
            supplied == /\ ~IsNone(a.guardrail)
                        /\ a.guardrail.v.guardrail_arn # ""
                        /\ a.guardrail.v.guardrail_version # ""
        IN  /\ "streamProcessingMode" \notin DOMAIN request
            /\ ("guardrailConfig" \in DOMAIN request) <=> supplied
            /\ supplied =>
                 /\ request.guardrailConfig.guardrailIdentifier = a.guardrail.v.guardrail_arn
                 /\ request.guardrailConfig.guardrailVersion = a.guardrail.v.guardrail_version
                 /\ request.guardrailConfig.trace = "enabled"
                 /\ ("streamProcessingMode" \in DOMAIN request.guardrailConfig) <=> a.stream
                 /\ a.stream => request.guardrailConfig.streamProcessingMode = "async"

C5_Witness ==
    \E c \in Succeeded("compose") :
        /\ calls[c].args.stream
        /\ "guardrailConfig" \in DOMAIN calls[c].result.value
        /\ calls[c].result.value.guardrailConfig =
               [guardrailIdentifier |-> "arn:aws:bedrock:guardrail/g1",
                guardrailVersion |-> "DRAFT", trace |-> "enabled",
                streamProcessingMode |-> "async"]

(***************************************************************************)
(* The part of C6 about a request that was returned: with generation       *)
(* parameters supplied the inference configuration holds exactly the       *)
(* supplied max-tokens, temperature, top-p and stop-sequences under their  *)
(* camel-case keys, without them exactly the defaults; no key twice, none  *)
(* in snake case; top-k is not in it and is in the additional model fields *)
(* with the default value.                                                 *)
(***************************************************************************)
EmittedConfigAsClaimed(a, request, defaults) ==
    LET ic == request.inference_config
        amrf == request.additional_model_request_fields
    IN  /\ Len(ic) = Cardinality(DictKeys(ic))
        /\ DictKeys(ic) = {K_maxTokens, K_temperature, K_topP, K_stopSequences}
        /\ IF IsNone(a.generation_params)
           THEN /\ DictGet(ic, K_maxTokens) = DictGet(defaults, K_max_tokens)
                /\ DictGet(ic, K_temperature) = DictGet(defaults, K_temperature)
                /\ DictGet(ic, K_topP) = DictGet(defaults, K_top_p)
                /\ DictGet(ic, K_stopSequences) = DictGet(defaults, K_stop_sequences)
           ELSE /\ DictGet(ic, K_maxTokens) = a.generation_params.v.max_tokens
                /\ DictGet(ic, K_temperature) = a.generation_params.v.temperature
                /\ DictGet(ic, K_topP) = a.generation_params.v.top_p
                /\ DictGet(ic, K_stopSequences) = a.generation_params.v.stop_sequences
        /\ DictHas(defaults, K_top_k)
        /\ amrf = << <<K_top_k, DictGet(defaults, K_top_k)>> >>

(***************************************************************************)
(* C6 as stated: the above, and compose does not fail when the default     *)
(* configuration has no top-k.                                             *)
(***************************************************************************)
C6_InferenceConfigWithoutTopK ==
    /\ \A c \in Succeeded("compose") :
           EmittedConfigAsClaimed(calls[c].args, calls[c].result.value,
                                  DEFAULT_GENERATION_CONFIG)
    /\ \A c \in Returned("compose") :
           calls[c].result.raised => calls[c].result.error # "KeyError"

(***************************************************************************)
(* C6, amended: the above for every request that is returned; and when the *)
(* default configuration has no top-k no request is returned: compose      *)
(* fails, with a KeyError unless the translation of the turns failed       *)
(* first, and it raises a KeyError in no other case.                       *)
(***************************************************************************)
C6_InferenceConfig ==
    /\ \A c \in Succeeded("compose") :
           EmittedConfigAsClaimed(calls[c].args, calls[c].result.value,
                                  DEFAULT_GENERATION_CONFIG)
    /\ \A c \in Returned("compose") :
           /\ ~DictHas(DEFAULT_GENERATION_CONFIG, K_top_k) =>
                 /\ calls[c].result.raised
                 /\ calls[c].args.messages = <<>> => calls[c].result.error = "KeyError"
           /\ (calls[c].result.raised /\ calls[c].result.error = "KeyError")
                 => ~DictHas(DEFAULT_GENERATION_CONFIG, K_top_k)

C6_Witness ==
    \E c \in Succeeded("compose") :
        /\ calls[c].args.generation_params = GenerationParams
        /\ DEFAULT_GENERATION_CONFIG = DEFAULT_MISTRAL_GENERATION_CONFIG
        /\ DictGet(calls[c].result.value.inference_config, K_maxTokens) = Num(512)
        /\ calls[c].result.value.additional_model_request_fields = << <<K_top_k, Num(50)>> >>

NameIsTidy(name) ==
    /\ \A i \in 1..Len(name) : name[i] \in ValidNameChars
    /\ \A i \in 1..(Len(name) - 1) : ~(name[i] \in Whitespace /\ name[i + 1] \in Whitespace)
    /\ name # <<>> => name[1] \notin Whitespace /\ name[Len(name)] \notin Whitespace

ResumeBlocks(a) ==
    {ib \in BlocksOf(a) :
        /\ a.messages[ib[1]].role \notin FilteredRoles
        /\ a.messages[ib[1]].content[ib[2]].content_type = "attachment"
        /\ a.messages[ib[1]].content[ib[2]].file_name = Str(ResumeFileName)}

ResumeEmittedAs(name) ==
    \A c \in Succeeded("compose") :
        \A ib \in ResumeBlocks(calls[c].args) :
            LET p == Produced(calls[c].args, calls[c].result.value, ib[1], ib[2])
            IN  /\ Len(p) = 1
                /\ DOMAIN p[1] = {"document"}
                /\ p[1].document.name = name
                /\ NameIsTidy(p[1].document.name)

(***************************************************************************)
(* C9 as stated: the document name emitted for an attachment named         *)
(* "My Résumé (v2).pdf!!" is "My Rsum (v2).pdf".                           *)
(***************************************************************************)
C9_ResumeNameWithExtension == ResumeEmittedAs(<<"M", "y", " ", "R", "s", "u", "m", " ", "(", "v", "2", ")", ".", "p", "d", "f">>)

(***************************************************************************)
(* C9, amended: the document name emitted for an attachment named          *)
(* "My Résumé (v2).pdf!!" is "My Rsum (v2)": the name is the stem, the     *)
(* part before the last dot, with the accented characters removed, no      *)
(* consecutive whitespace and no leading or trailing whitespace.           *)
(***************************************************************************)
C9_ResumeName == ResumeEmittedAs(<<"M", "y", " ", "R", "s", "u", "m", " ", "(", "v", "2", ")">>)

C9_Witness ==
    \E c \in Succeeded("compose") :
        /\ calls[c].args.messages = <<Turn("user", <<AttachmentResume, TextHello>>)>>
        /\ calls[c].result.value.messages[1].content[1].document.name = <<"M", "y", " ", "R", "s", "u", "m", " ", "(", "v", "2", ")">>
        /\ calls[c].result.value.messages[1].content[1].document.format = <<"t", "x", "t">>


HasCompleteDefault(pricing, model) ==
    /\ "default" \in DOMAIN pricing
    /\ model \in DOMAIN pricing["default"]
    /\ DOMAIN pricing["default"][model] = {"input", "output"}

HasNoDefault(pricing, model) ==
    "default" \notin DOMAIN pricing \/ model \notin DOMAIN pricing["default"]

ChosenPrice(pricing, region, model, field) ==
    IF region \in DOMAIN pricing
    THEN IF model \in DOMAIN pricing[region]
         THEN IF field \in DOMAIN pricing[region][model]
              THEN pricing[region][model][field]
              ELSE pricing["default"][model][field]
         ELSE pricing["default"][model][field]
    ELSE pricing["default"][model][field]

(***************************************************************************)
(* C7: for a model with a complete entry under "default", each unit price  *)
(* is chosen on its own: the region's price for that field when the        *)
(* region, the model and the field all exist, else the default's; the cost *)
(* is input_price * input_tokens / 1000 + output_price * output_tokens /   *)
(* 1000 (the result is kept as the numerator over 1000).                   *)
(***************************************************************************)
C7_PerFieldPrice ==
    \A c \in Returned("calculate_price") :
        LET a == calls[c].args IN
        HasCompleteDefault(BEDROCK_PRICING, a.model) =>
            /\ ~calls[c].result.raised
            /\ calls[c].result.value =
                   ChosenPrice(BEDROCK_PRICING, a.region, a.model, "input") * a.input_tokens
                   + ChosenPrice(BEDROCK_PRICING, a.region, a.model, "output") * a.output_tokens

\* The input price is the region's, the output price the default's.
C7_Witness ==
    \E c \in Returned("calculate_price") :
        /\ calls[c].args = [model |-> "claude-v3-haiku", input_tokens |-> 1000,
                            output_tokens |-> 500, region |-> "us-east-1"]
        /\ HasCompleteDefault(BEDROCK_PRICING, "claude-v3-haiku")
        /\ "us-east-1" \in DOMAIN BEDROCK_PRICING
        /\ "claude-v3-haiku" \in DOMAIN BEDROCK_PRICING["us-east-1"]
        /\ DOMAIN BEDROCK_PRICING["us-east-1"]["claude-v3-haiku"] = {"input"}
        /\ calls[c].result = Return(PriceOf("us-east-1", "claude-v3-haiku", "input") * 1000
                                    + PriceOf("default", "claude-v3-haiku", "output") * 500)

(***************************************************************************)
(* C8: calculate_price fails with a lookup error whenever the model has no *)
(* entry under "default", whatever the region argument and whatever the    *)
(* region's own table holds, and it never fails when the model has a       *)
(* complete "default" entry.                                               *)
(***************************************************************************)
C8_HardFailure ==
    \A c \in Returned("calculate_price") :
        /\ HasNoDefault(BEDROCK_PRICING, calls[c].args.model)
               => calls[c].result = Raise("KeyError")
        /\ HasCompleteDefault(BEDROCK_PRICING, calls[c].args.model)
               => ~calls[c].result.raised

\* The region prices the model in full, "default" does not know it.
C8_Witness ==
    \E c \in Returned("calculate_price") :
        /\ calls[c].args.model = "claude-v3-haiku"
        /\ calls[c].args.region = "us-east-1"
        /\ "us-east-1" \in DOMAIN BEDROCK_PRICING
        /\ "claude-v3-haiku" \in DOMAIN BEDROCK_PRICING["us-east-1"]
        /\ DOMAIN BEDROCK_PRICING["us-east-1"]["claude-v3-haiku"] = {"input", "output"}
        /\ "default" \in DOMAIN BEDROCK_PRICING
        /\ "claude-v3-haiku" \notin DOMAIN BEDROCK_PRICING["default"]
        /\ calls[c].result = Raise("KeyError")

(***************************************************************************)
(* C10: after any sequence of compose, get_model_id and calculate_price    *)
(* calls by any number of callers the process-wide data is what it was at  *)
(* process start, and two compose calls with the same arguments return the *)
(* same result whatever calls came between them.                           *)
(***************************************************************************)
C10_ProcessDataUnchanged ==
    /\ Globals = boot
    /\ \A c1, c2 \in Returned("compose") :
           calls[c1].args = calls[c2].args => calls[c1].result = calls[c2].result

C10_Witness ==
    \E c1, c2 \in Succeeded("compose") :
        /\ c1 # c2
        /\ calls[c1].args = calls[c2].args
        /\ calls[c1].result = calls[c2].result
        /\ calls[c1].result.value.additional_model_request_fields
               = << <<K_top_k, DictGet(boot.config, K_top_k)>> >>

=============================================================================
